---- MODULE Spec2Model ----
(***************************************************************************)
(* Model of the radGPT-UI study server (src/app/main.py).                  *)
(*                                                                         *)
(* The server has three kinds of handler: GET / (index), which derives a   *)
(* participant's assignment from the identifier alone, POST /api/v1/submit *)
(* (write_answers), which rebuilds the per-question records from the form  *)
(* and forwards them to the external form endpoint, and the static views.  *)
(*                                                                         *)
(* Python strings are modelled as sequences of one-character strings, so   *)
(* that lower(), join, split, replace, str() and the regular expression    *)
(* are computed and not assumed.                                           *)
(***************************************************************************)
EXTENDS Integers, Sequences, FiniteSets, TLC

VARIABLES
    ncases,     \* number of records in static/assets/cases.jsonl (fixed data)
    req,        \* the request being answered
    resp,       \* the answer of the handler to req
    forwarded,  \* the requests made to the external form endpoint, in order
    pinned      \* observer: one index page, served before any submission
                \* was forwarded

vars == <<ncases, req, resp, forwarded, pinned>>

-----------------------------------------------------------------------------
(* Bounds of the model.                                                    *)

\* the case list has 0..MaxCases records
MaxCases == 3
\* number of records in static/assets/demo.jsonl
DemoCases == 2
\* the model stops submitting once this many requests reached the endpoint
MaxForwarded == 2

-----------------------------------------------------------------------------
(* Python strings.                                                         *)

\* Python's None (not the string "None"): a value no string equals
None == <<"<None>">>

Digits == <<"0", "1", "2", "3", "4", "5", "6", "7", "8", "9">>
Lowers == <<"a", "b", "c", "d", "e", "f", "g", "h", "i", "j", "k", "l", "m",
            "n", "o", "p", "q", "r", "s", "t", "u", "v", "w", "x", "y", "z">>
Uppers == <<"A", "B", "C", "D", "E", "F", "G", "H", "I", "J", "K", "L", "M",
            "N", "O", "P", "Q", "R", "S", "T", "U", "V", "W", "X", "Y", "Z">>

Range(s) == {s[i] : i \in DOMAIN s}

\* list.index(x), 0-based; -1 stands for ValueError
index(s, x) ==
    IF x \in Range(s)
    THEN (CHOOSE i \in DOMAIN s : s[i] = x /\ \A j \in 1..(i - 1) : s[j] # x) - 1
    ELSE -1

\* the code point of a character
ord(c) ==
    CASE c \in Range(Digits) -> 48 + index(Digits, c)
      [] c \in Range(Uppers) -> 65 + index(Uppers, c)
      [] c \in Range(Lowers) -> 97 + index(Lowers, c)
      [] c = "," -> 44
      [] c = "-" -> 45
      [] c = "[" -> 91
      [] c = "]" -> 93
      [] c = "_" -> 95
      [] OTHER -> 63

\* str.lower()
lower(s) ==
    [i \in DOMAIN s |->
        IF s[i] \in Range(Uppers) THEN Lowers[index(Uppers, s[i]) + 1] ELSE s[i]]

RECURSIVE digits_of(_)
digits_of(k) ==
    IF k < 10 THEN <<Digits[k + 1]>>
    ELSE digits_of(k \div 10) \o <<Digits[(k % 10) + 1]>>

\* str(int)
str(k) == IF k < 0 THEN <<"-">> \o digits_of(-k) ELSE digits_of(k)

\* sep.join(parts)
RECURSIVE join(_, _)
join(sep, parts) ==
    IF Len(parts) = 0 THEN <<>>
    ELSE IF Len(parts) = 1 THEN parts[1]
    ELSE parts[1] \o sep \o join(sep, Tail(parts))

\* s.split(c) for a one-character separator: always at least one piece
RECURSIVE split(_, _)
split(s, c) ==
    IF c \notin Range(s) THEN <<s>>
    ELSE LET i == index(s, c) + 1
         IN  <<SubSeq(s, 1, i - 1)>> \o split(SubSeq(s, i + 1, Len(s)), c)

\* s.replace(c, "") for a one-character c
remove(s, c) == SelectSeq(s, LAMBDA x : x # c)

\* re.compile(r"Q\d+").fullmatch(s) is not None
fullmatch_Q_digits(s) ==
    /\ Len(s) >= 2
    /\ s[1] = "Q"
    /\ \A i \in 2..Len(s) : s[i] \in Range(Digits)

-----------------------------------------------------------------------------
(* Seed derivation and the pseudo-random generator.                        *)
(*                                                                         *)
(* SHA-256 and numpy's PCG64 bit generator are library code that cannot be *)
(* computed here.  They are replaced by a small digest and a small linear  *)
(* congruential generator: like the originals, each is a fixed function of *)
(* its argument and of nothing else.  What numpy's Generator.choice does   *)
(* with the bits (Floyd's sampling followed by a shuffle, for populations  *)
(* of at most 10000) is modelled as numpy does it.                         *)

HashModulus == 100000000

RECURSIVE digest(_, _)
digest(h, s) ==
    IF Len(s) = 0 THEN h
    ELSE digest((h * 17 + ord(s[1])) % HashModulus, Tail(s))

\* hash_uid(uid): an integer in [0, 10^8), a function of the characters of uid
hash_uid(uid) == digest(5381, uid) % HashModulus

\* a generator shared by the requests and never reseeded: its state depends
\* on what was served before
default_rng_shared(seed) == (Len(forwarded) * 31 + 7) % 65537

\* np.random.default_rng(seed=seed): the state of a freshly seeded generator
default_rng(seed) == (seed * 31 + 7) % 65537

\* one step of the bit generator
bitgen_next(st) == (st * 75 + 74) % 65537

\* random_bounded_uint64(bitgen, 0, rng): a value in 0..rng; no bits are
\* consumed when rng = 0
random_bounded(st, rng) ==
    IF rng = 0 THEN [st |-> st, val |-> 0]
    ELSE [st |-> bitgen_next(st), val |-> (bitgen_next(st) \div 7) % (rng + 1)]

\* Floyd's algorithm: for j in range(pop - size, pop), draw val in 0..j and
\* take val, or j when val was already taken
RECURSIVE floyd(_, _, _, _)
floyd(st, j, pop, acc) ==
    IF j >= pop THEN [st |-> st, idx |-> acc]
    ELSE LET r == random_bounded(st, j)
             v == IF r.val \in Range(acc) THEN j ELSE r.val
         IN  floyd(r.st, j + 1, pop, Append(acc, v))

swap(data, a, b) == [data EXCEPT ![a] = data[b], ![b] = data[a]]

\* _shuffle_int(n, 1, data): for i = n-1 down to 1, swap data[i] with
\* data[j], j drawn in 0..i (data is 1-based here)
RECURSIVE shuffle_int(_, _, _)
shuffle_int(st, i, data) ==
    IF i < 1 THEN [st |-> st, idx |-> data]
    ELSE LET r == random_bounded(st, i)
         IN  shuffle_int(r.st, i - 1, swap(data, i + 1, r.val + 1))

\* rng.choice(pop, size=size, replace=False) raises ValueError
choice_raises(pop, size) == (pop = 0 /\ size # 0) \/ size > pop

\* rng.choice(pop, size=size) with the default replace=True: size independent
\* draws
RECURSIVE draws(_, _, _)
draws(st, pop, k) ==
    IF k = 0 THEN <<>>
    ELSE LET r == random_bounded(st, pop - 1)
         IN  <<r.val>> \o draws(r.st, pop, k - 1)

choice_replace(st, pop, size) == draws(st, pop, size)

\* rng.choice(pop, size=size, replace=False) on a generator in state st:
\* size distinct values of 0..pop-1
choice(st, pop, size) ==
    LET f == floyd(st, pop - size, pop, <<>>)
    IN  shuffle_int(f.st, size - 1, f.idx).idx

-----------------------------------------------------------------------------
(* Static data.                                                            *)

S_demo == <<"d", "e", "m", "o">>
S_None == <<"N", "o", "n", "e">>
S_CT   == <<"C", "T">>
S_MRI  == <<"M", "R", "I">>
S_ct   == <<"c", "t">>
S_Xray == <<"X", "r", "a", "y">>

\* the hashed identifiers forced into the timed condition (each digest is
\* cut to its first four characters)
PGY_PARTICIPANTS == {
    <<"7", "f", "c", "f">>, <<"0", "7", "2", "a">>, <<"7", "7", "f", "2">>,
    <<"9", "6", "e", "8">>, <<"4", "7", "3", "3">>, <<"3", "5", "0", "6">>,
    <<"c", "d", "d", "a">>, <<"8", "7", "5", "e">>, <<"4", "0", "7", "3">> }

\* read_imaging_studies(): the lines of studies.txt, then "None"
read_imaging_studies == <<S_CT, S_MRI>> \o <<S_None>>

\* read_patient_cases(fn): demo.jsonl for the demo, cases.jsonl otherwise
read_patient_cases(is_demo) ==
    [i \in 1..(IF is_demo THEN DemoCases ELSE ncases) |->
        [case |-> <<"case", is_demo, i - 1>>,
         topics |-> <<"topics", is_demo, i - 1>>]]

\* the tables of the topics of one case, looked up in read_guidelines()
guideline_tables(topic_list) == <<"tables", topic_list>>

-----------------------------------------------------------------------------
(* Flask.                                                                  *)

\* the endpoints registered by create_app (an endpoint is named after its
\* view function) and their rules
Rules == [index |-> "/", success |-> "/success", error |-> "/error",
          write_answers |-> "/api/v1/submit",
          dcv |-> "/.well-known/pki-validation", static |-> "/static"]

BuildError == "werkzeug.routing.BuildError"

\* flask.url_for(endpoint): raises BuildError for a name that is no endpoint
url_for(endpoint) ==
    IF endpoint \in DOMAIN Rules THEN Rules[endpoint] ELSE BuildError

\* an exception that leaves a view, and abort(500)
InternalServerError == [kind |-> "error", status |-> 500]

\* redirect(url_for(endpoint))
redirect(endpoint) ==
    IF url_for(endpoint) = BuildError THEN InternalServerError
    ELSE [kind |-> "redirect", status |-> 302, location |-> url_for(endpoint)]

\* render_template(name) without context
render_template(name) == [kind |-> "view", status |-> 200, template |-> name]

\* request.form.get(key, default): the first value sent under key
form_get(form, key, default) ==
    IF \E i \in DOMAIN form : form[i][1] = key
    THEN form[CHOOSE i \in DOMAIN form :
                 form[i][1] = key /\ \A j \in 1..(i - 1) : form[j][1] # key][2]
    ELSE default

\* request.form.items(): each key once, with its first value, in the order
\* in which the keys first appear
RECURSIVE items_from(_, _)
items_from(form, i) ==
    IF i > Len(form) THEN <<>>
    ELSE (IF \A j \in 1..(i - 1) : form[j][1] # form[i][1]
          THEN <<form[i]>> ELSE <<>>) \o items_from(form, i + 1)

form_items(form) == items_from(form, 1)

-----------------------------------------------------------------------------
(* GET / and GET /<demo>.                                                  *)

\* the guidance draw rounded up
guidance_size_ceil(n) == (n + 1) \div 2

\* size of the guidance draw: len(questions) // 2
guidance_size(n) == n \div 2

\* show_guidance before reordering: qidx in with_guidance, for each qidx
show_guidance_of(seed, n) ==
    LET with_guidance == choice(default_rng(seed), n, guidance_size(n))
    IN  [q \in 1..n |-> (q - 1) \in Range(with_guidance)]

\* the list left in its original order
reorder_skipped(list, sort_idxs) == list

\* [list[idx] for idx in sort_idxs]
reorder(list, sort_idxs) == [i \in DOMAIN sort_idxs |-> list[sort_idxs[i] + 1]]

\* the timed condition without the participants' override
timed_of_draw(seed, is_demo, uid) ==
    IF is_demo THEN <<"0">> ELSE str(choice(default_rng(seed), 2, 1)[1])

\* the timed condition: the seeded draw, "0" for the demo, "1" for the
\* listed participants
timed_of(seed, is_demo, uid) ==
    LET drawn == str(choice(default_rng(seed), 2, 1)[1])
        t1 == IF is_demo THEN <<"0">> ELSE drawn
    IN  IF uid \in PGY_PARTICIPANTS THEN <<"1">> ELSE t1

index_view(demo, uid_arg) ==
    LET is_demo == demo # None /\ lower(demo) = S_demo
        uid == IF is_demo THEN S_demo ELSE uid_arg
    IN  IF uid = None THEN render_template("instructions.html")
        ELSE
        LET seed == hash_uid(uid)
            cases == read_patient_cases(is_demo)
            n == Len(cases)
            questions == [i \in 1..n |-> cases[i].case]
            guidelines == [i \in 1..n |-> guideline_tables(cases[i].topics)]
            show_guidance == show_guidance_of(seed, n)
            sort_idxs == choice(default_rng(seed), n, n)
            shown == reorder(show_guidance, sort_idxs)
        IN  IF \/ choice_raises(n, guidance_size(n))
               \/ choice_raises(n, n)
            THEN InternalServerError
            ELSE [kind |-> "index", status |-> 200,
                  is_demo |-> is_demo,
                  uid |-> uid,
                  seed |-> str(seed),
                  questions |-> reorder(questions, sort_idxs),
                  guidelines |-> reorder(guidelines, sort_idxs),
                  show_guidance |-> shown,
                  show_guidance_str |->
                      [i \in DOMAIN shown |-> IF shown[i] THEN "1" ELSE "0"],
                  order |-> sort_idxs,
                  sort_idxs |->
                      join(<<",">>, [i \in DOMAIN sort_idxs |-> str(sort_idxs[i])]),
                  timed |-> timed_of(seed, is_demo, uid)]

-----------------------------------------------------------------------------
(* POST /api/v1/submit.                                                    *)

K_name == <<"n", "a", "m", "e">>
K_uid == <<"u", "i", "d">>
K_sort_idxs == <<"s", "o", "r", "t", "_", "i", "d", "x", "s">>
K_with_guidance ==
    <<"w", "i", "t", "h", "_", "g", "u", "i", "d", "a", "n", "c", "e">>
K_timed == <<"t", "i", "m", "e", "d">>
K_seed == <<"s", "e", "e", "d">>
K_duration == <<"d", "u", "r", "a", "t", "i", "o", "n">>

\* int(s) for a string of digits
RECURSIVE int_of(_)
int_of(s) ==
    IF Len(s) = 0 THEN 0
    ELSE 10 * int_of(SubSeq(s, 1, Len(s) - 1)) + index(Digits, s[Len(s)])

\* the answers ordered by the number in the field name
answers_by_number(form) ==
    LET qas == SelectSeq(form_items(form), LAMBDA qa : fullmatch_Q_digits(qa[1]))
        num(i) == int_of(Tail(qas[i][1]))
        at(k) == CHOOSE i \in DOMAIN qas :
                    Cardinality({j \in DOMAIN qas : num(j) < num(i)}) = k - 1
    IN  [k \in DOMAIN qas |-> qas[at(k)][2]]

\* the answers: the values of the fields whose name matches Q\d+, in the
\* order of request.form.items()
answers_of(form) ==
    LET qas == SelectSeq(form_items(form), LAMBDA qa : fullmatch_Q_digits(qa[1]))
    IN  [i \in DOMAIN qas |-> qas[i][2]]

\* a match that ignores the case of the letters
aidx_of_nocase(studies, a) ==
    str(index([i \in DOMAIN studies |-> lower(studies[i])], lower(a)))

\* str(studies.index(a)), or "-1" on ValueError
aidx_of(studies, a) == str(index(studies, a))

\* the question indices: sort_idxs without brackets, split at the commas
qidxs_of(form) ==
    split(remove(remove(form_get(form, K_sort_idxs, S_None), "["), "]"), ",")

Min(a, b) == IF a < b THEN a ELSE b

\* [f"Q{qi},A{ai},{b}" for qi, ai, b in zip(qidxs, aidxs, with_guidance)]
zip_response(qidxs, aidxs, with_guidance) ==
    [i \in 1..Min(Len(qidxs), Min(Len(aidxs), Len(with_guidance))) |->
        <<"Q">> \o qidxs[i] \o <<",", "A">> \o aidxs[i]
               \o <<",">> \o <<with_guidance[i]>>]

\* what form_url carries to the form endpoint (the timestamp is left out;
\* seed and with_guidance are passed to format() but the URL has no such
\* field)
record_of(form) ==
    LET answers == answers_of(form)
        aidxs == [i \in DOMAIN answers |->
                     aidx_of(read_imaging_studies, answers[i])]
    IN  [user |-> form_get(form, K_uid, S_None),
         answer |-> zip_response(qidxs_of(form), aidxs,
                                 form_get(form, K_with_guidance, <<>>)),
         is_timed |-> form_get(form, K_timed, S_None),
         duration |-> form_get(form, K_duration, S_None)]

\* a store keyed by the identifier: a later record replaces the earlier one
send_upsert(log, record) ==
    IF \E i \in DOMAIN log : log[i].user = record.user
    THEN [i \in DOMAIN log |->
             IF log[i].user = record.user THEN record ELSE log[i]]
    ELSE Append(log, record)

\* requests.get(form_url): one more request reaches (or is tried on) the
\* form endpoint
send(log, record) == Append(log, record)

\* the answer of the form endpoint: no connection, or a status code
Replies == {[connected |-> FALSE, status_code |-> 0],
            [connected |-> TRUE, status_code |-> 200],
            [connected |-> TRUE, status_code |-> 500]}

\* the status code of the answer is not looked at
after_forward_unchecked(reply) ==
    IF ~reply.connected THEN redirect("error/connection")
    ELSE redirect("success")

\* what the view returns once the request to the form endpoint is over
after_forward(reply) ==
    IF ~reply.connected THEN redirect("error/connection")
    ELSE IF reply.status_code = 200 THEN redirect("success")
    ELSE redirect("error/post")

\* the submission is refused: the hidden "name" field was filled in
is_bot(form) == Len(form_get(form, K_name, <<>>)) # 0

\* the submission is the demo's and is not recorded
is_demo_uid(form) == lower(form_get(form, K_uid, S_None)) = S_demo

-----------------------------------------------------------------------------
(* The clients.                                                            *)

U_u1 == <<"u", "1">>
U_pgy == <<"0", "7", "2", "a">>
U_Demo == <<"D", "e", "m", "o">>

\* the last path segment of GET /<demo>; <<>> is GET /
DemoPaths == {<<>>, U_Demo, <<"x">>}
\* the uid query argument
UidArgs == {None, U_u1, U_pgy, S_demo}

Answers == <<S_CT, S_Xray, S_ct, S_MRI, S_None>>

\* the answer the participant gives at presentation position i (1-based)
sheet(i) == Answers[(i % Len(Answers)) + 1]

Q(k) == <<"Q">> \o str(k)

\* the form a browser posts back from an index page: the hidden fields as
\* rendered and one answer field per presented question, the fields numbered
\* by position or against it
postback(page, backwards) ==
    LET n == Len(page.questions)
    IN  << <<K_uid, page.uid>>, <<K_seed, page.seed>>,
           <<K_timed, page.timed>>, <<K_sort_idxs, page.sort_idxs>>,
           <<K_with_guidance, page.show_guidance_str>>,
           <<K_duration, <<"9">>>> >>
        \o [i \in 1..n |->
               <<Q(IF backwards THEN n - i ELSE i - 1), sheet(i)>>]

\* forms that no index page produces
HandForms == {
    \* a bot: the hidden name field is filled in
    << <<K_name, <<"b", "o", "t">>>>, <<K_uid, U_u1>>, <<Q(0), S_CT>>,
       <<K_sort_idxs, <<"0">>>>, <<K_with_guidance, <<"1">>>> >>,
    \* the demo, whatever the case of the letters
    << <<K_uid, U_Demo>>, <<Q(0), S_CT>>,
       <<K_sort_idxs, <<"0">>>>, <<K_with_guidance, <<"1">>>> >>,
    \* brackets in sort_idxs, a repeated field, a field that is no answer,
    \* fewer guidance characters than answers
    << <<K_uid, U_u1>>, <<K_sort_idxs, <<"[", "2", ",", "0", ",", "1", "]">>>>,
       <<Q(12), S_Xray>>, <<<<"Q", "x">>, S_CT>>, <<Q(0), S_MRI>>,
       <<Q(12), S_CT>>, <<K_with_guidance, <<"1", "0">>>> >>,
    \* fewer question indices than answers
    << <<K_uid, U_pgy>>, <<K_sort_idxs, <<"1">>>>,
       <<Q(1), S_ct>>, <<Q(0), S_None>>,
       <<K_with_guidance, <<"0", "1", "1">>>> >>,
    \* nothing but one answer
    << <<Q(0), S_MRI>> >> }

ClientForms ==
    HandForms \cup
    (IF resp.kind = "index"
     THEN {postback(resp, bw) : bw \in BOOLEAN}
     ELSE {})

-----------------------------------------------------------------------------
(* The handlers.                                                           *)

Init ==
    /\ ncases \in 0..MaxCases
    /\ req = [method |-> "none"]
    /\ resp = [kind |-> "none"]
    /\ forwarded = <<>>
    /\ pinned = [kind |-> "none"]

\* GET / and GET /<demo>
Index ==
    \E demo \in DemoPaths, uid \in UidArgs :
        /\ req' = [method |-> "GET", rule |-> "/"]
        /\ resp' = index_view(demo, uid)
        /\ UNCHANGED <<ncases, forwarded, pinned>>

\* GET /success
Success ==
    /\ req' = [method |-> "GET", rule |-> "/success"]
    /\ resp' = render_template("success.html")
    /\ UNCHANGED <<ncases, forwarded, pinned>>

\* GET /error and GET /error/<err_type>
Error ==
    \E err_type \in {"", "connection", "post"} :
        /\ req' = [method |-> "GET", rule |-> "/error", err_type |-> err_type]
        /\ resp' = [kind |-> "view", status |-> 200,
                    template |-> "error.html", err_type |-> err_type]
        /\ UNCHANGED <<ncases, forwarded, pinned>>

\* POST /api/v1/submit
WriteAnswers ==
    /\ Len(forwarded) < MaxForwarded
    /\ \E form \in ClientForms, reply \in Replies :
        /\ req' = [method |-> "POST", rule |-> "/api/v1/submit",
                   form |-> form, reply |-> reply]
        /\ IF is_bot(form)
           THEN resp' = InternalServerError /\ UNCHANGED forwarded
           ELSE IF is_demo_uid(form)
           THEN resp' = redirect("success") /\ UNCHANGED forwarded
           ELSE /\ forwarded' = send(forwarded, record_of(form))
                /\ resp' = after_forward(reply)
        /\ UNCHANGED <<ncases, pinned>>

\* the observer keeps an index page served before anything was forwarded
Pin ==
    /\ pinned.kind = "none"
    /\ resp.kind = "index"
    /\ forwarded = <<>>
    /\ pinned' = [kind |-> "index", page |-> resp]
    /\ UNCHANGED <<ncases, req, resp, forwarded>>

Next == Index \/ Success \/ Error \/ WriteAnswers

Spec == Init /\ [][Next]_vars

\* the same server, watched by the observer
NextObserved == Next \/ Pin

SpecObserved == Init /\ [][NextObserved]_vars

-----------------------------------------------------------------------------
(* Properties.                                                             *)

\* resp is an index page
IsIndex == resp.kind = "index"

\* the number of cases behind the index page resp
NumCases == IF resp.is_demo THEN DemoCases ELSE ncases

\* the case list behind the index page resp
PageCases == read_patient_cases(resp.is_demo)

\* req is a submission that the view forwards: not a bot's, not the demo's
Forwards ==
    /\ req.method = "POST"
    /\ ~is_bot(req.form)
    /\ ~is_demo_uid(req.form)

\* the step is the handling of a submission
PostStep == req'.method = "POST" /\ pinned' = pinned /\ vars' # vars

\* the step adds exactly one record, of the submitting identifier, after the
\* records that were there, which it leaves as they were
AppendsOne ==
    /\ Len(forwarded') = Len(forwarded) + 1
    /\ SubSeq(forwarded', 1, Len(forwarded)) = forwarded
    /\ forwarded'[Len(forwarded')].user = form_get(req'.form, K_uid, S_None)

LastForwarded == forwarded[Len(forwarded)]

ReplyOk == req.reply.connected /\ req.reply.status_code = 200

ToSuccess == resp.kind = "redirect" /\ resp.location = "/success"

\* C1. Determinism: an index page for an identifier (and the same case
\* list) shows the same question order, the same guidance flags and the same
\* timed flag as any index page served for it earlier, whatever was served
\* in between.
C1_Determinism ==
    (/\ pinned.kind = "index"
     /\ IsIndex
     /\ resp.uid = pinned.page.uid
     /\ resp.is_demo = pinned.page.is_demo)
    => /\ resp.order = pinned.page.order
       /\ resp.sort_idxs = pinned.page.sort_idxs
       /\ resp.show_guidance = pinned.page.show_guidance
       /\ resp.show_guidance_str = pinned.page.show_guidance_str
       /\ resp.timed = pinned.page.timed

\* an index page served again after a submission was forwarded (the page
\* the observer keeps was served before)
C1_Witness ==
    /\ pinned.kind = "index"
    /\ IsIndex
    /\ req.method = "GET"
    /\ resp.uid = pinned.page.uid
    /\ resp.is_demo = pinned.page.is_demo
    /\ Len(forwarded) >= 1
    /\ Len(resp.order) >= 2

\* C2. Permutation validity: GET / raises no error, and the question order of
\* an index page has one entry per case, every case index 0..n-1 exactly
\* once; the rendered sort_idxs is that order, comma-separated.
C2_Permutation ==
    /\ (req.method = "GET" /\ req.rule = "/") => resp.kind # "error"
    /\ IsIndex =>
        /\ Len(resp.order) = NumCases
        /\ \A k \in 0..(NumCases - 1) :
              Cardinality({i \in DOMAIN resp.order : resp.order[i] = k}) = 1
        /\ resp.sort_idxs =
              join(<<",">>, [i \in DOMAIN resp.order |-> str(resp.order[i])])

\* an order of three cases that is not the original order
C2_Witness ==
    /\ IsIndex
    /\ Len(resp.order) >= 3
    /\ \E i \in DOMAIN resp.order : resp.order[i] # i - 1

\* C3. Guidance balance: of the n flags of an index page exactly n div 2 are
\* true, as a list and as the string of 0s and 1s.
C3_GuidanceBalance ==
    IsIndex =>
        /\ Len(resp.show_guidance) = NumCases
        /\ Cardinality({i \in DOMAIN resp.show_guidance : resp.show_guidance[i]})
              = NumCases \div 2
        /\ Len(resp.show_guidance_str) = NumCases
        /\ \A i \in DOMAIN resp.show_guidance_str :
              resp.show_guidance_str[i] = (IF resp.show_guidance[i] THEN "1" ELSE "0")

\* an odd number of cases, so that the halves differ
C3_Witness ==
    /\ IsIndex
    /\ NumCases = 3
    /\ Cardinality({i \in DOMAIN resp.show_guidance : resp.show_guidance[i]}) = 1

\* C4. Coupling: at every position i of an index page the question, the
\* guideline tables and the guidance flag are those of case order[i]; the
\* flag is the one drawn for that case before the reordering.
C4_Coupling ==
    IsIndex =>
        \A i \in 1..NumCases :
            LET c == resp.order[i] + 1
            IN  /\ resp.questions[i] = PageCases[c].case
                /\ resp.guidelines[i] = guideline_tables(PageCases[c].topics)
                /\ resp.show_guidance[i] =
                      show_guidance_of(hash_uid(resp.uid), NumCases)[c]

\* an index page whose flags by position are not the flags by case index
C4_Witness ==
    /\ IsIndex
    /\ NumCases >= 2
    /\ resp.show_guidance # show_guidance_of(hash_uid(resp.uid), NumCases)

\* the binary value drawn from a generator freshly seeded for identifier uid
SeededDraw(uid) == str(choice(default_rng(hash_uid(uid)), 2, 1)[1])

\* C9 as claimed: the timed flag of every index page is the seeded draw.
C9_TimedIsDraw == IsIndex => resp.timed = SeededDraw(resp.uid)

\* C9 as amended: the timed flag is "1" for a listed participant, "0" for
\* the demo, and the seeded draw for everybody else.
C9_TimedAmended ==
    IsIndex =>
        resp.timed = (IF resp.uid \in PGY_PARTICIPANTS THEN <<"1">>
                      ELSE IF resp.is_demo THEN <<"0">>
                      ELSE SeededDraw(resp.uid))

\* a listed participant whose seeded draw is 0
C9_Witness ==
    /\ IsIndex
    /\ resp.uid \in PGY_PARTICIPANTS
    /\ SeededDraw(resp.uid) = <<"0">>

\* C5 as claimed: when the forward fails (no connection, or a status other
\* than 200) the view answers with a redirect to the error view.
C5_FailureRedirectsToError ==
    (Forwards /\ ~ReplyOk) =>
        /\ resp.kind = "redirect"
        /\ resp.location \in {"/error/connection", "/error/post"}

\* the i-th answer index written into the forwarded record rec
RecordedAidx(rec, i) == Tail(split(rec.answer[i], ",")[2])

\* C6. Unmatched answers: in a forwarded record every answer that is no
\* entry of the study list is recorded as -1 and every other answer with its
\* index in the list, and a forward acknowledged with 200 ends in the success
\* view all the same.
C6_Unmatched ==
    Forwards =>
        /\ Len(forwarded) >= 1
        /\ \A i \in DOMAIN LastForwarded.answer :
              LET a == answers_of(req.form)[i]
              IN  RecordedAidx(LastForwarded, i) =
                     (IF a \in Range(read_imaging_studies)
                      THEN str(index(read_imaging_studies, a))
                      ELSE <<"-", "1">>)
        /\ ReplyOk => ToSuccess

\* a forwarded record with an unmatched answer and a matched one, acknowledged
C6_Witness ==
    /\ Forwards
    /\ ReplyOk
    /\ ToSuccess
    /\ \E i, j \in DOMAIN LastForwarded.answer :
          /\ RecordedAidx(LastForwarded, i) = <<"-", "1">>
          /\ RecordedAidx(LastForwarded, j) # <<"-", "1">>

\* C7 as claimed: every submission of an identifier that is not the demo
\* forwards one new record and leaves the earlier ones as they were.
C7_EveryPostForwards ==
    [][(PostStep /\ ~is_demo_uid(req'.form)) => AppendsOne]_vars

\* C7 as amended: every submission whose name field is empty and whose
\* identifier is not the demo forwards one new record and leaves the earlier
\* ones as they were.
C7_EveryAcceptedPostForwards ==
    [][(PostStep /\ ~is_bot(req'.form) /\ ~is_demo_uid(req'.form))
          => AppendsOne]_vars

\* two records forwarded for the same identifier
C7_Witness ==
    /\ Len(forwarded) = 2
    /\ forwarded[1].user = forwarded[2].user
    /\ Forwards

\* C8 as claimed: a submission answered with a redirect to the success view
\* has forwarded its record and got status 200 for it.
C8_SuccessMeansForwarded ==
    [][(PostStep /\ ToSuccess') => (AppendsOne /\ ReplyOk')]_vars

\* C8 as amended: a submission answered with a redirect to the success view
\* either is the demo's, and nothing was forwarded, or has forwarded its
\* record and got status 200 for it.
C8_SuccessAmended ==
    [][(PostStep /\ ToSuccess') =>
          \/ is_demo_uid(req'.form) /\ forwarded' = forwarded
          \/ ~is_demo_uid(req'.form) /\ AppendsOne /\ ReplyOk']_vars

\* a recorded submission answered with the redirect to the success view
C8_Witness ==
    /\ Forwards
    /\ ToSuccess
    /\ ReplyOk
    /\ Len(forwarded) >= 1
    /\ LastForwarded.user = form_get(req.form, K_uid, S_None)

\* the index page of a GET / with identifier uid
PageOf(uid) == index_view(<<>>, uid)

\* the triple expected at position i of the post-back of page
ExpectedTriple(page, i) ==
    LET c == page.order[i]
        flag == show_guidance_of(hash_uid(page.uid), Len(page.order))[c + 1]
    IN  <<"Q">> \o str(c) \o <<",", "A">>
           \o str(index(read_imaging_studies, sheet(i)))
           \o <<",">> \o <<IF flag THEN "1" ELSE "0">>

\* C10. Round trip: a forwarded record has as many triples as the shortest
\* of the question indices, the answers in fields named Q<digits> and the
\* guidance characters; and when the form is the post-back of the index page
\* of an identifier, it has one triple per case, the i-th made of order[i],
\* the index of the answer given at position i (whatever the number in the
\* name of its field) and the guidance flag of case order[i].
C10_RoundTrip ==
    Forwards =>
        /\ Len(forwarded) >= 1
        /\ Len(LastForwarded.answer) =
              Min(Len(qidxs_of(req.form)),
                  Min(Cardinality({i \in DOMAIN form_items(req.form) :
                          fullmatch_Q_digits(form_items(req.form)[i][1])}),
                      Len(form_get(req.form, K_with_guidance, <<>>))))
        /\ \A uid \in UidArgs \ {None} : \A bw \in BOOLEAN :
              req.form = postback(PageOf(uid), bw) =>
                  /\ Len(LastForwarded.answer) = ncases
                  /\ \A i \in 1..ncases :
                        LastForwarded.answer[i] = ExpectedTriple(PageOf(uid), i)

\* the post-back of a reordered page of three cases, its fields numbered
\* against the positions
C10_Witness ==
    /\ Forwards
    /\ ncases = 3
    /\ \E uid \in UidArgs \ {None} :
          /\ req.form = postback(PageOf(uid), TRUE)
          /\ \E i \in 1..3 : PageOf(uid).order[i] # i - 1

====
